---- MODULE Spec2Model ----
(***************************************************************************)
(* Storm sampler objects (pxr/imaging/hdSt/samplerObject.cpp): the wrap    *)
(* parameter resolver, the GL sampler factory, the two bindless-handle     *)
(* helpers and the constructors / destructors of the Uv, Field and Ptex    *)
(* sampler objects, run against a model of the GL device (sampler names,   *)
(* resident bindless handles) and of the texture owner (textures that are  *)
(* loaded, destroyed and reloaded out of the sampler objects' control).    *)
(*                                                                         *)
(* Every GL call and every TF_CODING_ERROR of the last operation is kept   *)
(* in the log `calls`, in the order the code issues them.                  *)
(***************************************************************************)
EXTENDS Integers, Sequences, FiniteSets, Bags, TLC

\* ------------------------------------------------------------------ bounds

\* Sampler objects alive at the same time.
MaxObjects == 2
\* GL sampler names the device hands out are 1..MaxSamplerName.
MaxSamplerName == 2

\* ------------------------------------------------------------------- types

HdWrapClamp == "Clamp"
HdWrapRepeat == "Repeat"
HdWrapBlack == "Black"
HdWrapMirror == "Mirror"
HdWrapNoOpinion == "NoOpinion"
HdWrapLegacyNoOpinionFallbackRepeat == "LegacyNoOpinionFallbackRepeat"

HdWrap ==
    {HdWrapClamp, HdWrapRepeat, HdWrapBlack, HdWrapMirror,
     HdWrapNoOpinion, HdWrapLegacyNoOpinionFallbackRepeat}

\* Two of the filter modes; the code only hands them on to the device.
HdMinFilter == {"Nearest", "Linear"}
HdMagFilter == {"Nearest", "Linear"}

\* The five attributes of HdStSamplerParameters.
HdStSamplerParameters ==
    [wrapS : HdWrap, wrapT : HdWrap, wrapR : HdWrap,
     minFilter : HdMinFilter, magFilter : HdMagFilter]

Parameters(wrapS, wrapT, wrapR, minFilter, magFilter) ==
    [wrapS |-> wrapS, wrapT |-> wrapT, wrapR |-> wrapR,
     minFilter |-> minFilter, magFilter |-> magFilter]

\* The parameters the callers of the constructors pass in the object-level
\* specification (the resolver is run on the full type in ResolveSpec).
CallerParameters ==
    {Parameters(HdWrapNoOpinion, HdWrapClamp, HdWrapNoOpinion, "Linear", "Nearest"),
     Parameters(HdWrapLegacyNoOpinionFallbackRepeat, HdWrapMirror,
                HdWrapLegacyNoOpinionFallbackRepeat, "Nearest", "Linear")}

\* The (wrapS, wrapT) opinions a texture file authors in the object-level
\* specification.
AuthoredWrap == {<<HdWrapRepeat, HdWrapNoOpinion>>, <<HdWrapNoOpinion, HdWrapClamp>>}

\* The GL texture names of the textures: every GL texture has its own name,
\* and a texture that is destroyed and loaded again gets the name it had (the
\* driver re-uses names, and with them handle values).
UvTextureName == 1
FieldTextureName == 2
PtexTexelName == 3
PtexLayoutName == 4

TextureKinds == {"Uv", "Field", "Ptex"}

\* What a sampler object reads of its texture object:
\*   present     HgiTextureHandle::Get() is not nullptr
\*   isGL        the dynamic_cast to HgiGLTexture succeeds
\*   textureId   HgiGLTexture::GetTextureId()
\*   wrapS/T     HdStUvTextureObject::GetWrapParameters()
\*   texelName   HdStPtexTextureObject::GetTexelGLTextureName()
\*   layoutName  HdStPtexTextureObject::GetLayoutGLTextureName()
NoTexture ==
    [present |-> FALSE, isGL |-> FALSE, textureId |-> 0,
     wrapS |-> HdWrapNoOpinion, wrapT |-> HdWrapNoOpinion,
     texelName |-> 0, layoutName |-> 0]

\* A sampler object: its class and the data members of the three classes.
NoObject ==
    [kind |-> "None", glSamplerName |-> 0, glTextureSamplerHandle |-> 0,
     texelsGLTextureHandle |-> 0, layoutGLTextureHandle |-> 0]

NoParameters ==
    [wrapS |-> HdWrapNoOpinion, wrapT |-> HdWrapNoOpinion,
     wrapR |-> HdWrapNoOpinion, minFilter |-> "Nearest", magFilter |-> "Nearest"]

VARIABLES
    textures,     \* texture kind -> what the texture owner currently exposes
    objects,      \* the bag of the live sampler objects
    glSamplers,   \* device: the sampler names in use
    glResident,   \* device: the bindless handles that are resident
    calls,        \* the device / diagnostic calls of the last operation
    lastOp        \* the last operation: its name, inputs and object

vars == <<textures, objects, glSamplers, glResident, calls, lastOp>>

\* ------------------------------------------------------------- GL device

\* One entry of the call log: the function or macro, and its arguments
\*   name         the sampler name (the one produced, for glGenSamplers)
\*   pname, val   the sampler parameter, and the Hd value that is handed to
\*                HdStGLConversions for it (or the fixed value)
\*   texture      the texture name
\*   handle       the bindless handle (the one returned, for a get-handle call)
\*   wasResident  whether that handle was resident when the call was made
Call(fn, name, pname, val, texture, handle, wasResident) ==
    [fn |-> fn, name |-> name, pname |-> pname, val |-> val,
     texture |-> texture, handle |-> handle, wasResident |-> wasResident]

SamplerCall(fn, name, pname, val) == Call(fn, name, pname, val, 0, 0, FALSE)
PostPendingGLErrors == Call("GLF_POST_PENDING_GL_ERRORS", 0, "", "", 0, 0, FALSE)
CodingError == Call("TF_CODING_ERROR", 0, "", "", 0, 0, FALSE)

\* glGetTextureHandleARB / glGetTextureSamplerHandleARB: a handle is unique to
\* its texture or (texture, sampler) pair, and the device returns the same
\* value whenever it is asked for the same texture or pair again, also after
\* the texture or the sampler was deleted and its name re-used.
HandleStride == MaxSamplerName + 1
DeviceHandle(textureName, samplerName) == textureName * HandleStride + samplerName
HandleTexture(h) == h \div HandleStride
HandleSampler(h) == h % HandleStride

\* glGenSamplers: an unused name, or 0 when the device refuses.
GenSamplersOutcomes(samplers) == {0} \cup ((1..MaxSamplerName) \ samplers)

\* glMakeTextureHandleResidentARB: an error (no effect) on 0; on a handle
\* that is resident it is a device error too, and the handle stays resident.
MakeResident(resident, h) == IF h = 0 THEN resident ELSE resident \cup {h}

\* glMakeTextureHandleNonResidentARB.
MakeNonResident(resident, h) == resident \ {h}

\* glDeleteSamplers: the name is free again, and the texture sampler handles
\* made from the sampler are deleted with it.
DeleteSampler(samplers, name) == samplers \ {name}
DeleteSamplerHandles(resident, name) == {h \in resident : HandleSampler(h) # name}

\* Destroying a GPU texture deletes the handles made from it.
DeleteTextureHandles(resident, textureName) ==
    {h \in resident : HandleTexture(h) # textureName}

\* ---------------------------------------------------------------- helpers

\* Mutant of _GenGLSampler: the pending errors are checked before the
\* anisotropy is set.
_GenGLSampler_DrainsBeforeAnisotropy(samplerParameters, name, samplers) ==
    [result |-> name,
     samplers |->
        IF name = 0 THEN samplers ELSE samplers \cup {name},
     calls |->
        << SamplerCall("glGenSamplers", name, "", ""),
           SamplerCall("glSamplerParameteri", name, "GL_TEXTURE_WRAP_S",
                       samplerParameters.wrapS),
           SamplerCall("glSamplerParameteri", name, "GL_TEXTURE_WRAP_T",
                       samplerParameters.wrapT),
           SamplerCall("glSamplerParameteri", name, "GL_TEXTURE_WRAP_R",
                       samplerParameters.wrapR),
           SamplerCall("glSamplerParameteri", name, "GL_TEXTURE_MIN_FILTER",
                       samplerParameters.minFilter),
           SamplerCall("glSamplerParameteri", name, "GL_TEXTURE_MAG_FILTER",
                       samplerParameters.magFilter),
           SamplerCall("glSamplerParameterfv", name, "GL_TEXTURE_BORDER_COLOR",
                       "(0,0,0,0)"),
           PostPendingGLErrors,
           SamplerCall("glSamplerParameterf", name, "GL_TEXTURE_MAX_ANISOTROPY_EXT",
                       "16.0") >>]

\* _GenGLSampler, given the name glGenSamplers produced.
_GenGLSampler(samplerParameters, name, samplers) ==
    [result |-> name,
     samplers |->
        IF name = 0 THEN samplers ELSE samplers \cup {name},
     calls |->
        << SamplerCall("glGenSamplers", name, "", ""),
           SamplerCall("glSamplerParameteri", name, "GL_TEXTURE_WRAP_S",
                       samplerParameters.wrapS),
           SamplerCall("glSamplerParameteri", name, "GL_TEXTURE_WRAP_T",
                       samplerParameters.wrapT),
           SamplerCall("glSamplerParameteri", name, "GL_TEXTURE_WRAP_R",
                       samplerParameters.wrapR),
           SamplerCall("glSamplerParameteri", name, "GL_TEXTURE_MIN_FILTER",
                       samplerParameters.minFilter),
           SamplerCall("glSamplerParameteri", name, "GL_TEXTURE_MAG_FILTER",
                       samplerParameters.magFilter),
           SamplerCall("glSamplerParameterfv", name, "GL_TEXTURE_BORDER_COLOR",
                       "(0,0,0,0)"),
           SamplerCall("glSamplerParameterf", name, "GL_TEXTURE_MAX_ANISOTROPY_EXT",
                       "16.0"),
           PostPendingGLErrors >>]

\* The result of a handle helper that returns early.
NoHandle(resident, log) == [result |-> 0, resident |-> resident, calls |-> log]

\* Mutant of _GenGLTextureSamplerHandle: the test of createBindlessHandle is
\* missing.
_GenGLTextureSamplerHandle_NoCreateTest(texture, samplerName, createBindlessHandle, resident) ==
    IF ~texture.present THEN NoHandle(resident, << >>)
    ELSE IF ~texture.isGL THEN NoHandle(resident, << CodingError >>)
    ELSE IF texture.textureId = 0 THEN NoHandle(resident, << >>)
    ELSE IF samplerName = 0 THEN NoHandle(resident, << >>)
    ELSE LET result == DeviceHandle(texture.textureId, samplerName)
         IN  [result |-> result,
              resident |-> MakeResident(resident, result),
              calls |->
                 << Call("glGetTextureSamplerHandleARB", samplerName, "", "",
                         texture.textureId, result, FALSE),
                    Call("glMakeTextureHandleResidentARB", 0, "", "",
                         0, result, result \in resident),
                    PostPendingGLErrors >>]

\* Mutant of _GenGLTextureSamplerHandle: a texture of another backing gives no
\* handle and no coding error.
_GenGLTextureSamplerHandle_SilentMismatch(texture, samplerName, createBindlessHandle, resident) ==
    IF ~createBindlessHandle THEN NoHandle(resident, << >>)
    ELSE IF ~texture.present THEN NoHandle(resident, << >>)
    ELSE IF ~texture.isGL THEN NoHandle(resident, << >>)
    ELSE IF texture.textureId = 0 THEN NoHandle(resident, << >>)
    ELSE IF samplerName = 0 THEN NoHandle(resident, << >>)
    ELSE LET result == DeviceHandle(texture.textureId, samplerName)
         IN  [result |-> result,
              resident |-> MakeResident(resident, result),
              calls |->
                 << Call("glGetTextureSamplerHandleARB", samplerName, "", "",
                         texture.textureId, result, FALSE),
                    Call("glMakeTextureHandleResidentARB", 0, "", "",
                         0, result, result \in resident),
                    PostPendingGLErrors >>]

\* Mutant of _GenGLTextureSamplerHandle: the test of a zero sampler name is
\* missing.
_GenGLTextureSamplerHandle_NoSamplerTest(texture, samplerName, createBindlessHandle, resident) ==
    IF ~createBindlessHandle THEN NoHandle(resident, << >>)
    ELSE IF ~texture.present THEN NoHandle(resident, << >>)
    ELSE IF ~texture.isGL THEN
        NoHandle(resident, << CodingError >>)
    ELSE IF texture.textureId = 0 THEN NoHandle(resident, << >>)
    ELSE LET result == DeviceHandle(texture.textureId, samplerName)
         IN  [result |-> result,
              resident |-> MakeResident(resident, result),
              calls |->
                 << Call("glGetTextureSamplerHandleARB", samplerName, "", "",
                         texture.textureId, result, FALSE),
                    Call("glMakeTextureHandleResidentARB", 0, "", "",
                         0, result, result \in resident),
                    PostPendingGLErrors >>]

\* Mutant of _GenGLTextureSamplerHandle: the pending errors are checked
\* between the get-handle call and the make-resident call.
_GenGLTextureSamplerHandle_DrainsBeforeResident(texture, samplerName, createBindlessHandle, resident) ==
    IF ~createBindlessHandle THEN NoHandle(resident, << >>)
    ELSE IF ~texture.present THEN NoHandle(resident, << >>)
    ELSE IF ~texture.isGL THEN
        NoHandle(resident, << CodingError >>)
    ELSE IF texture.textureId = 0 THEN NoHandle(resident, << >>)
    ELSE IF samplerName = 0 THEN NoHandle(resident, << >>)
    ELSE LET result == DeviceHandle(texture.textureId, samplerName)
         IN  [result |-> result,
              resident |-> MakeResident(resident, result),
              calls |->
                 << Call("glGetTextureSamplerHandleARB", samplerName, "", "",
                         texture.textureId, result, FALSE),
                    PostPendingGLErrors,
                    Call("glMakeTextureHandleResidentARB", 0, "", "",
                         0, result, result \in resident) >>]

\* _GenGLTextureSamplerHandle.
_GenGLTextureSamplerHandle(texture, samplerName, createBindlessHandle, resident) ==
    IF ~createBindlessHandle THEN NoHandle(resident, << >>)
    ELSE IF ~texture.present THEN NoHandle(resident, << >>)
    ELSE IF ~texture.isGL THEN
        NoHandle(resident, << CodingError >>)
    ELSE IF texture.textureId = 0 THEN NoHandle(resident, << >>)
    ELSE IF samplerName = 0 THEN NoHandle(resident, << >>)
    ELSE LET result == DeviceHandle(texture.textureId, samplerName)
         IN  [result |-> result,
              resident |-> MakeResident(resident, result),
              calls |->
                 << Call("glGetTextureSamplerHandleARB", samplerName, "", "",
                         texture.textureId, result, FALSE),
                    Call("glMakeTextureHandleResidentARB", 0, "", "",
                         0, result, result \in resident),
                    PostPendingGLErrors >>]

\* Mutant of _GenGlTextureHandle: the test of a zero texture name is missing.
_GenGlTextureHandle_NoZeroTest(textureName, createGLTextureHandle, resident) ==
    IF ~createGLTextureHandle THEN NoHandle(resident, << >>)
    ELSE LET result == DeviceHandle(textureName, 0)
         IN  [result |-> result,
              resident |-> MakeResident(resident, result),
              calls |->
                 << Call("glGetTextureHandleARB", 0, "", "",
                         textureName, result, FALSE),
                    Call("glMakeTextureHandleResidentARB", 0, "", "",
                         0, result, result \in resident),
                    PostPendingGLErrors >>]

\* _GenGlTextureHandle.
_GenGlTextureHandle(textureName, createGLTextureHandle, resident) ==
    IF ~createGLTextureHandle THEN NoHandle(resident, << >>)
    ELSE IF textureName = 0 THEN NoHandle(resident, << >>)
    ELSE LET result == DeviceHandle(textureName, 0)
         IN  [result |-> result,
              resident |-> MakeResident(resident, result),
              calls |->
                 << Call("glGetTextureHandleARB", 0, "", "",
                         textureName, result, FALSE),
                    Call("glMakeTextureHandleResidentARB", 0, "", "",
                         0, result, result \in resident),
                    PostPendingGLErrors >>]

\* Mutant of the resolver: the legacy test is missing.
_ResolveSamplerParameter_NoLegacyTest(textureOpinion, parameter) ==
    IF parameter = HdWrapNoOpinion THEN textureOpinion ELSE parameter

\* Mutant of the resolver: the legacy test falls back to repeat without
\* looking at the texture's opinion.
_ResolveSamplerParameter_LegacyAlwaysRepeat(textureOpinion, parameter) ==
    LET afterFirst ==
            IF parameter = HdWrapNoOpinion THEN textureOpinion ELSE parameter
    IN  IF afterFirst = HdWrapLegacyNoOpinionFallbackRepeat
        THEN HdWrapRepeat
        ELSE afterFirst

\* _ResolveSamplerParameter: two sequential tests on *parameter; the value
\* returned is *parameter after the call.
_ResolveSamplerParameter(textureOpinion, parameter) ==
    LET afterFirst ==
            IF parameter = HdWrapNoOpinion THEN textureOpinion ELSE parameter
    IN  IF afterFirst = HdWrapLegacyNoOpinionFallbackRepeat
        THEN (IF textureOpinion = HdWrapNoOpinion
              THEN HdWrapRepeat
              ELSE textureOpinion)
        ELSE afterFirst

\* Mutant of _ResolveUvSamplerParameters: wrapR is resolved too, against the
\* texture's wrapS opinion.
_ResolveUvSamplerParameters_ResolvesWrapR(texture, samplerParameters) ==
    [samplerParameters EXCEPT
        !.wrapS = _ResolveSamplerParameter(texture.wrapS, samplerParameters.wrapS),
        !.wrapT = _ResolveSamplerParameter(texture.wrapT, samplerParameters.wrapT),
        !.wrapR = _ResolveSamplerParameter(texture.wrapS, samplerParameters.wrapR)]

\* _ResolveUvSamplerParameters.
_ResolveUvSamplerParameters(texture, samplerParameters) ==
    [samplerParameters EXCEPT
        !.wrapS = _ResolveSamplerParameter(texture.wrapS, samplerParameters.wrapS),
        !.wrapT = _ResolveSamplerParameter(texture.wrapT, samplerParameters.wrapT)]

\* Mutant of operator==: magFilter is not compared.
OperatorEqual_NoMagFilter(this, other) ==
    /\ this.wrapS = other.wrapS
    /\ this.wrapT = other.wrapT
    /\ this.wrapR = other.wrapR
    /\ this.minFilter = other.minFilter

\* HdStSamplerParameters::operator==
OperatorEqual(this, other) ==
    /\ this.wrapS = other.wrapS
    /\ this.wrapT = other.wrapT
    /\ this.wrapR = other.wrapR
    /\ this.minFilter = other.minFilter
    /\ this.magFilter = other.magFilter

\* HdStSamplerParameters::operator!=
OperatorNotEqual(this, other) == ~OperatorEqual(this, other)

\* ------------------------------------------------------------- operations

Op(op, texture, samplerParameters, createBindlessHandle, resolved, object) ==
    [op |-> op, texture |-> texture,
     samplerParameters |-> samplerParameters,
     createBindlessHandle |-> createBindlessHandle,
     resolved |-> resolved, object |-> object]

OtherOp(op) == Op(op, NoTexture, NoParameters, FALSE, NoParameters, NoObject)

\* The live sampler objects are a bag: two of them may hold the same values.
Live == BagToSet(objects)
CanConstruct == BagCardinality(objects) < MaxObjects

Init ==
    /\ textures = [k \in TextureKinds |-> NoTexture]
    /\ objects = EmptyBag
    /\ glSamplers = {}
    /\ glResident = {}
    /\ calls = << >>
    /\ lastOp = OtherOp("Init")

\* Mutant of the Uv constructor: the sampler is made from the caller's
\* parameters, unresolved.
UvConstruct_Unresolved ==
    /\ CanConstruct
    /\ \E samplerParameters \in CallerParameters, createBindlessHandle \in BOOLEAN,
          name \in GenSamplersOutcomes(glSamplers) :
        LET texture == textures["Uv"]
            s == _GenGLSampler(samplerParameters, name, glSamplers)
            h == _GenGLTextureSamplerHandle(
                     texture, s.result, createBindlessHandle, glResident)
            object == [NoObject EXCEPT !.kind = "Uv",
                                       !.glSamplerName = s.result,
                                       !.glTextureSamplerHandle = h.result]
        IN  /\ objects' = objects (+) SetToBag({object})
            /\ glSamplers' = s.samplers
            /\ glResident' = h.resident
            /\ calls' = s.calls \o h.calls
            /\ lastOp' = Op("UvConstruct", texture, samplerParameters,
                            createBindlessHandle, samplerParameters, object)
    /\ UNCHANGED textures

\* HdStUvSamplerObject::HdStUvSamplerObject
UvConstruct ==
    /\ CanConstruct
    /\ \E samplerParameters \in CallerParameters, createBindlessHandle \in BOOLEAN,
          name \in GenSamplersOutcomes(glSamplers) :
        LET texture == textures["Uv"]
            resolved == _ResolveUvSamplerParameters(texture, samplerParameters)
            s == _GenGLSampler(resolved, name, glSamplers)
            h == _GenGLTextureSamplerHandle(
                     texture, s.result, createBindlessHandle, glResident)
            object == [NoObject EXCEPT !.kind = "Uv",
                                       !.glSamplerName = s.result,
                                       !.glTextureSamplerHandle = h.result]
        IN  /\ objects' = objects (+) SetToBag({object})
            /\ glSamplers' = s.samplers
            /\ glResident' = h.resident
            /\ calls' = s.calls \o h.calls
            /\ lastOp' = Op("UvConstruct", texture, samplerParameters,
                            createBindlessHandle, resolved, object)
    /\ UNCHANGED textures

\* Mutant of the Field constructor: the parameters are resolved against the
\* texture as the Uv constructor resolves them.
FieldConstruct_Resolved ==
    /\ CanConstruct
    /\ \E samplerParameters \in CallerParameters, createBindlessHandle \in BOOLEAN,
          name \in GenSamplersOutcomes(glSamplers) :
        LET texture == textures["Field"]
            resolved == _ResolveUvSamplerParameters(texture, samplerParameters)
            s == _GenGLSampler(resolved, name, glSamplers)
            h == _GenGLTextureSamplerHandle(
                     texture, s.result, createBindlessHandle, glResident)
            object == [NoObject EXCEPT !.kind = "Field",
                                       !.glSamplerName = s.result,
                                       !.glTextureSamplerHandle = h.result]
        IN  /\ objects' = objects (+) SetToBag({object})
            /\ glSamplers' = s.samplers
            /\ glResident' = h.resident
            /\ calls' = s.calls \o h.calls
            /\ lastOp' = Op("FieldConstruct", texture, samplerParameters,
                            createBindlessHandle, resolved, object)
    /\ UNCHANGED textures

\* HdStFieldSamplerObject::HdStFieldSamplerObject
FieldConstruct ==
    /\ CanConstruct
    /\ \E samplerParameters \in CallerParameters, createBindlessHandle \in BOOLEAN,
          name \in GenSamplersOutcomes(glSamplers) :
        LET texture == textures["Field"]
            s == _GenGLSampler(samplerParameters, name, glSamplers)
            h == _GenGLTextureSamplerHandle(
                     texture, s.result, createBindlessHandle, glResident)
            object == [NoObject EXCEPT !.kind = "Field",
                                       !.glSamplerName = s.result,
                                       !.glTextureSamplerHandle = h.result]
        IN  /\ objects' = objects (+) SetToBag({object})
            /\ glSamplers' = s.samplers
            /\ glResident' = h.resident
            /\ calls' = s.calls \o h.calls
            /\ lastOp' = Op("FieldConstruct", texture, samplerParameters,
                            createBindlessHandle, samplerParameters, object)
    /\ UNCHANGED textures

\* Mutant of the Ptex constructor: it makes a sampler from its parameters, as
\* the other two constructors do.
PtexConstruct_MakesSampler ==
    /\ CanConstruct
    /\ \E samplerParameters \in CallerParameters, createBindlessHandle \in BOOLEAN,
          name \in GenSamplersOutcomes(glSamplers) :
        LET ptexTexture == textures["Ptex"]
            s == _GenGLSampler(samplerParameters, name, glSamplers)
            t == _GenGlTextureHandle(
                     ptexTexture.texelName, createBindlessHandle, glResident)
            l == _GenGlTextureHandle(
                     ptexTexture.layoutName, createBindlessHandle, t.resident)
            object == [NoObject EXCEPT !.kind = "Ptex",
                                       !.texelsGLTextureHandle = t.result,
                                       !.layoutGLTextureHandle = l.result]
        IN  /\ objects' = objects (+) SetToBag({object})
            /\ glSamplers' = s.samplers
            /\ glResident' = l.resident
            /\ calls' = s.calls \o t.calls \o l.calls
            /\ lastOp' = Op("PtexConstruct", ptexTexture, samplerParameters,
                            createBindlessHandle, NoParameters, object)
    /\ UNCHANGED textures

\* HdStPtexSamplerObject::HdStPtexSamplerObject
PtexConstruct ==
    /\ CanConstruct
    /\ \E samplerParameters \in CallerParameters, createBindlessHandle \in BOOLEAN :
        LET ptexTexture == textures["Ptex"]
            t == _GenGlTextureHandle(
                     ptexTexture.texelName, createBindlessHandle, glResident)
            l == _GenGlTextureHandle(
                     ptexTexture.layoutName, createBindlessHandle, t.resident)
            object == [NoObject EXCEPT !.kind = "Ptex",
                                       !.texelsGLTextureHandle = t.result,
                                       !.layoutGLTextureHandle = l.result]
        IN  /\ objects' = objects (+) SetToBag({object})
            /\ glResident' = l.resident
            /\ calls' = t.calls \o l.calls
            /\ lastOp' = Op("PtexConstruct", ptexTexture, samplerParameters,
                            createBindlessHandle, NoParameters, object)
    /\ UNCHANGED <<textures, glSamplers>>

\* Mutant of the destructor body: it also releases the handle, the call the
\* destructor's comment rules out.
DeleteSamplerIfNonZero_ReleasesHandle(op, object) ==
    LET name == object.glSamplerName
        h == object.glTextureSamplerHandle
        release ==
            IF h # 0
            THEN << Call("glMakeTextureHandleNonResidentARB", 0, "", "",
                         0, h, h \in glResident) >>
            ELSE << >>
    IN  /\ objects' = objects (-) SetToBag({object})
        /\ glSamplers' = DeleteSampler(glSamplers, name)
        /\ glResident' = DeleteSamplerHandles(MakeNonResident(glResident, h), name)
        /\ calls' = release \o
                     (IF name # 0
                      THEN << SamplerCall("glDeleteSamplers", name, "", "") >>
                      ELSE << >>)
        /\ lastOp' = Op(op, NoTexture, NoParameters, FALSE, NoParameters, object)
        /\ UNCHANGED textures

\* Mutant of the destructor body: the sampler is not deleted.
DeleteSamplerIfNonZero_Leaks(op, object) ==
    /\ objects' = objects (-) SetToBag({object})
    /\ calls' = << >>
    /\ lastOp' = Op(op, NoTexture, NoParameters, FALSE, NoParameters, object)
    /\ UNCHANGED <<textures, glSamplers, glResident>>

\* The body shared by ~HdStUvSamplerObject and ~HdStFieldSamplerObject.
DeleteSamplerIfNonZero(op, object) ==
    LET name == object.glSamplerName
    IN  /\ objects' = objects (-) SetToBag({object})
        /\ IF name # 0
           THEN /\ glSamplers' = DeleteSampler(glSamplers, name)
                /\ glResident' = DeleteSamplerHandles(glResident, name)
                /\ calls' = << SamplerCall("glDeleteSamplers", name, "", "") >>
           ELSE /\ UNCHANGED <<glSamplers, glResident>>
                /\ calls' = << >>
        /\ lastOp' = Op(op, NoTexture, NoParameters, FALSE, NoParameters, object)
        /\ UNCHANGED textures

\* HdStUvSamplerObject::~HdStUvSamplerObject
UvDestroy ==
    \E object \in Live :
        /\ object.kind = "Uv"
        /\ DeleteSamplerIfNonZero("UvDestroy", object)

\* HdStFieldSamplerObject::~HdStFieldSamplerObject
FieldDestroy ==
    \E object \in Live :
        /\ object.kind = "Field"
        /\ DeleteSamplerIfNonZero("FieldDestroy", object)

\* Mutant of the release: the test of the handle is missing.
ReleaseIfNonZero_Unconditional(h, resident) ==
    [resident |-> MakeNonResident(resident, h),
     calls |-> << Call("glMakeTextureHandleNonResidentARB", 0, "", "",
                       0, h, h \in resident) >>]

\* One `if (handle) glMakeTextureHandleNonResidentARB(handle)`.
ReleaseIfNonZero(h, resident) ==
    IF h # 0
    THEN [resident |-> MakeNonResident(resident, h),
          calls |-> << Call("glMakeTextureHandleNonResidentARB", 0, "", "",
                            0, h, h \in resident) >>]
    ELSE [resident |-> resident, calls |-> << >>]

\* HdStPtexSamplerObject::~HdStPtexSamplerObject
PtexDestroy ==
    \E object \in Live :
        /\ object.kind = "Ptex"
        /\ LET t == ReleaseIfNonZero(object.texelsGLTextureHandle, glResident)
               l == ReleaseIfNonZero(object.layoutGLTextureHandle, t.resident)
           IN  /\ objects' = objects (-) SetToBag({object})
               /\ glResident' = l.resident
               /\ calls' = t.calls \o l.calls
               /\ lastOp' = Op("PtexDestroy", NoTexture, NoParameters, FALSE,
                               NoParameters, object)
        /\ UNCHANGED <<textures, glSamplers>>

\* --------------------------------------------------------- texture owner

\* The texture owner loads the Uv texture: a GL texture (named, or with no
\* GL name yet) or a texture of another backing, with the wrap opinions
\* its file authors.
LoadUvTexture ==
    /\ ~textures["Uv"].present
    /\ \E isGL \in BOOLEAN, textureId \in {0, UvTextureName}, wrap \in AuthoredWrap :
        /\ ~isGL => textureId = 0
        /\ textures' = [textures EXCEPT !["Uv"] =
                           [NoTexture EXCEPT !.present = TRUE, !.isGL = isGL,
                                             !.textureId = textureId,
                                             !.wrapS = wrap[1], !.wrapT = wrap[2]]]
    /\ calls' = << >>
    /\ lastOp' = OtherOp("LoadUvTexture")
    /\ UNCHANGED <<objects, glSamplers, glResident>>

\* The texture owner loads the Field texture: a named GL texture or a
\* texture of another backing.
LoadFieldTexture ==
    /\ ~textures["Field"].present
    /\ \E isGL \in BOOLEAN :
        textures' = [textures EXCEPT !["Field"] =
                        [NoTexture EXCEPT
                            !.present = TRUE, !.isGL = isGL,
                            !.textureId = IF isGL THEN FieldTextureName ELSE 0]]
    /\ calls' = << >>
    /\ lastOp' = OtherOp("LoadFieldTexture")
    /\ UNCHANGED <<objects, glSamplers, glResident>>

\* The texture owner loads the Ptex texture: its texel and layout arrays are
\* two GL textures (0: none yet), at least one of them there.
LoadPtexTexture ==
    /\ ~textures["Ptex"].present
    /\ \E texelName \in {0, PtexTexelName}, layoutName \in {0, PtexLayoutName} :
        /\ texelName # 0 \/ layoutName # 0
        /\ textures' = [textures EXCEPT !["Ptex"] =
                        [NoTexture EXCEPT !.present = TRUE, !.isGL = TRUE,
                                          !.texelName = texelName,
                                          !.layoutName = layoutName]]
    /\ calls' = << >>
    /\ lastOp' = OtherOp("LoadPtexTexture")
    /\ UNCHANGED <<objects, glSamplers, glResident>>

\* The texture owner destroys a GPU texture (the texture object is destroyed,
\* its file reloaded or its target memory changed): the device deletes the
\* handles made from it.
DestroyTexture ==
    /\ \E kind \in TextureKinds :
        /\ textures[kind].present
        /\ glResident' =
              DeleteTextureHandles(
                  DeleteTextureHandles(
                      DeleteTextureHandles(glResident, textures[kind].textureId),
                      textures[kind].texelName),
                  textures[kind].layoutName)
        /\ textures' = [textures EXCEPT ![kind] = NoTexture]
    /\ calls' = << >>
    /\ lastOp' = OtherOp("DestroyTexture")
    /\ UNCHANGED <<objects, glSamplers>>

Next ==
    \/ UvConstruct
    \/ FieldConstruct
    \/ PtexConstruct
    \/ UvDestroy
    \/ FieldDestroy
    \/ PtexDestroy
    \/ LoadUvTexture
    \/ LoadFieldTexture
    \/ LoadPtexTexture
    \/ DestroyTexture

Spec == Init /\ [][Next]_vars

\* ------------------------------------------------- the resolver on its own

\* _ResolveUvSamplerParameters applied to every texture opinion pair and every
\* value of HdStSamplerParameters.
InitResolve ==
    /\ textures = [k \in TextureKinds |-> NoTexture]
    /\ objects = EmptyBag
    /\ glSamplers = {}
    /\ glResident = {}
    /\ calls = << >>
    /\ \E wrapS \in HdWrap, wrapT \in HdWrap, samplerParameters \in HdStSamplerParameters :
        lastOp = Op("ResolveInput",
                    [NoTexture EXCEPT !.wrapS = wrapS, !.wrapT = wrapT],
                    samplerParameters, FALSE, NoParameters, NoObject)

ResolveUvSamplerParameters ==
    /\ lastOp.op = "ResolveInput"
    /\ lastOp' = [lastOp EXCEPT
                     !.op = "_ResolveUvSamplerParameters",
                     !.resolved = _ResolveUvSamplerParameters(
                                      lastOp.texture, lastOp.samplerParameters)]
    /\ UNCHANGED <<textures, objects, glSamplers, glResident, calls>>

NextResolve == ResolveUvSamplerParameters

ResolveSpec == InitResolve /\ [][NextResolve]_vars

\* ------------------------------------------- the comparisons on their own

\* The wrap values the compared parameters take: two of them tell equal from
\* unequal in each of the three wrap attributes.
ComparedWrap == {HdWrapClamp, HdWrapLegacyNoOpinionFallbackRepeat}

ComparedParameters ==
    [wrapS : ComparedWrap, wrapT : ComparedWrap, wrapR : ComparedWrap,
     minFilter : HdMinFilter, magFilter : HdMagFilter]

Comparison(op, this, other, result) ==
    [op |-> op, this |-> this, other |-> other, result |-> result]

\* Every pair of compared parameters, no operator applied yet.
InitEquality ==
    /\ textures = [k \in TextureKinds |-> NoTexture]
    /\ objects = EmptyBag
    /\ glSamplers = {}
    /\ glResident = {}
    /\ calls = << >>
    /\ \E this \in ComparedParameters, other \in ComparedParameters :
        lastOp = Comparison("EqualityInput", this, other, FALSE)

\* a == b
CompareEqual ==
    /\ lastOp.op = "EqualityInput"
    /\ lastOp' = Comparison("operator==", lastOp.this, lastOp.other,
                            OperatorEqual(lastOp.this, lastOp.other))
    /\ UNCHANGED <<textures, objects, glSamplers, glResident, calls>>

\* a != b
CompareNotEqual ==
    /\ lastOp.op = "EqualityInput"
    /\ lastOp' = Comparison("operator!=", lastOp.this, lastOp.other,
                            OperatorNotEqual(lastOp.this, lastOp.other))
    /\ UNCHANGED <<textures, objects, glSamplers, glResident, calls>>

NextEquality ==
    \/ CompareEqual
    \/ CompareNotEqual

EqualitySpec == InitEquality /\ [][NextEquality]_vars

\* ---------------------------------------------------------------- claims

\* The positions of the log that hold a call of one of the functions fns.
CallsOf(fns) == {i \in 1..Len(calls) : calls[i].fn \in fns}

\* The log reduced to <<function, handle>>.
HandleLog == [i \in 1..Len(calls) |-> <<calls[i].fn, calls[i].handle>>]

GetHandleFns == {"glGetTextureSamplerHandleARB", "glGetTextureHandleARB"}
MakeResidentFn == "glMakeTextureHandleResidentARB"
MakeNonResidentFn == "glMakeTextureHandleNonResidentARB"
SamplerFns ==
    {"glGenSamplers", "glSamplerParameteri", "glSamplerParameterfv",
     "glSamplerParameterf"}

\* C1: the destructor of a Uv or Field sampler object issues no
\* make-non-resident call, whatever handle the object holds; its log is one
\* glDeleteSamplers of the object's sampler when the sampler name is
\* non-zero, and empty when it is zero.
C1_UvFieldDestroyDeletesSamplerOnly ==
    lastOp.op \in {"UvDestroy", "FieldDestroy"} =>
        /\ CallsOf({MakeNonResidentFn}) = {}
        /\ calls = IF lastOp.object.glSamplerName # 0
                   THEN << SamplerCall("glDeleteSamplers",
                                       lastOp.object.glSamplerName, "", "") >>
                   ELSE << >>

\* C1 witness: a Uv object that held a non-zero bindless handle was destroyed
\* and its sampler deleted.
C1_Witness ==
    /\ lastOp.op = "UvDestroy"
    /\ lastOp.object.glTextureSamplerHandle # 0
    /\ lastOp.object.glSamplerName # 0
    /\ Len(calls) = 1

\* What the destructor of the Ptex object has to log for one handle.
ExpectedRelease(h) == IF h # 0 THEN << <<MakeNonResidentFn, h>> >> ELSE << >>

\* The number of non-zero handles a Ptex object holds.
HandlesHeld(object) ==
    Cardinality({f \in {"texels", "layout"} :
        (IF f = "texels" THEN object.texelsGLTextureHandle
                         ELSE object.layoutGLTextureHandle) # 0})

\* C2: the destructor of a Ptex sampler object issues one make-non-resident
\* call for each non-zero handle it holds, on that handle, texels first, and
\* nothing else; and the handles a Ptex object holds are the ones its
\* constructor derived: as many non-zero handles as get-handle calls, each
\* the handle such a call returned.
C2_PtexDestroyReleasesHeldHandles ==
    /\ lastOp.op = "PtexDestroy" =>
        /\ HandleLog = ExpectedRelease(lastOp.object.texelsGLTextureHandle)
                          \o ExpectedRelease(lastOp.object.layoutGLTextureHandle)
        /\ Len(calls) = HandlesHeld(lastOp.object)
    /\ lastOp.op = "PtexConstruct" =>
        /\ HandlesHeld(lastOp.object) = Cardinality(CallsOf(GetHandleFns))
        /\ \A h \in {lastOp.object.texelsGLTextureHandle,
                      lastOp.object.layoutGLTextureHandle} \ {0} :
              \E i \in CallsOf(GetHandleFns) : calls[i].handle = h

\* C2 witness: a Ptex object holding two handles was destroyed, with two
\* make-non-resident calls.
C2_Witness ==
    /\ lastOp.op = "PtexDestroy"
    /\ lastOp.object.texelsGLTextureHandle # 0
    /\ lastOp.object.layoutGLTextureHandle # 0
    /\ Len(calls) = 2

\* C3: glMakeTextureHandleResidentARB is never called on a handle that is
\* already resident.
C3_NoResidencyCallOnResidentHandle ==
    \A i \in CallsOf({MakeResidentFn}) : ~calls[i].wasResident

\* The device samplers and the bindless handles a sampler object holds.
SamplersHeld(object) == {object.glSamplerName} \ {0}
BindlessHandlesHeld(object) ==
    {object.glTextureSamplerHandle, object.texelsGLTextureHandle,
     object.layoutGLTextureHandle} \ {0}

\* C4: no two live sampler objects hold the same device sampler or the same
\* bindless handle.
C4_NoSharedSamplerOrHandle ==
    /\ \A o \in Live, p \in Live :
          o # p =>
            /\ SamplersHeld(o) \cap SamplersHeld(p) = {}
            /\ BindlessHandlesHeld(o) \cap BindlessHandlesHeld(p) = {}
    /\ \A o \in Live :
          CopiesIn(o, objects) > 1 =>
            (SamplersHeld(o) = {} /\ BindlessHandlesHeld(o) = {})

\* The state after _ResolveUvSamplerParameters ran on its own.
Resolved == lastOp.op = "_ResolveUvSamplerParameters"

\* The two axes the resolver is applied to: <<textureOpinion, callerParameter,
\* resolved value>>.
ResolvedAxes ==
    {<<lastOp.texture.wrapS, lastOp.samplerParameters.wrapS, lastOp.resolved.wrapS>>,
     <<lastOp.texture.wrapT, lastOp.samplerParameters.wrapT, lastOp.resolved.wrapT>>}

NoOpinions == {HdWrapNoOpinion, HdWrapLegacyNoOpinionFallbackRepeat}

\* C5 as stated: the resolved value is never NoOpinion and never
\* LegacyNoOpinionFallbackRepeat.
C5_Original_ResolvedNeverNoOpinion ==
    Resolved => \A axis \in ResolvedAxes : axis[3] \notin NoOpinions

\* C5 amended: the resolved value is NoOpinion exactly when the texture opinion
\* and the caller's parameter are both NoOpinion, and it is
\* LegacyNoOpinionFallbackRepeat exactly when the texture opinion is
\* LegacyNoOpinionFallbackRepeat and the caller's parameter is one of the two
\* no-opinion values; so it is neither whenever the texture opinion is Clamp,
\* Repeat, Mirror or Black.
C5_ResolvedNoOpinionOnlyFromTexture ==
    Resolved => \A axis \in ResolvedAxes :
        /\ axis[3] = HdWrapNoOpinion <=>
              (axis[1] = HdWrapNoOpinion /\ axis[2] = HdWrapNoOpinion)
        /\ axis[3] = HdWrapLegacyNoOpinionFallbackRepeat <=>
              (axis[1] = HdWrapLegacyNoOpinionFallbackRepeat /\ axis[2] \in NoOpinions)

\* C5 witness: the legacy sentinel met a texture with no opinion and was
\* resolved to Repeat.
C5_Witness ==
    /\ Resolved
    /\ lastOp.texture.wrapS = HdWrapNoOpinion
    /\ lastOp.samplerParameters.wrapS = HdWrapLegacyNoOpinionFallbackRepeat
    /\ lastOp.resolved.wrapS = HdWrapRepeat

\* The resolver as the algorithm states it: if / else if / else.
ReferenceResolve(textureOpinion, callerParameter) ==
    IF callerParameter = HdWrapNoOpinion THEN textureOpinion
    ELSE IF callerParameter = HdWrapLegacyNoOpinionFallbackRepeat
         THEN (IF textureOpinion = HdWrapNoOpinion THEN HdWrapRepeat
                                                   ELSE textureOpinion)
         ELSE callerParameter

\* C6: on every (textureOpinion, callerParameter) pair the code's two
\* sequential tests give the value of the three-case algorithm.
C6_ResolverMatchesReference ==
    Resolved => \A axis \in ResolvedAxes : axis[3] = ReferenceResolve(axis[1], axis[2])

\* C6 witness: the case where both of the code's tests fire: the caller has
\* no opinion and the texture opinion is the legacy sentinel.
C6_Witness ==
    /\ Resolved
    /\ lastOp.samplerParameters.wrapT = HdWrapNoOpinion
    /\ lastOp.texture.wrapT = HdWrapLegacyNoOpinionFallbackRepeat
    /\ lastOp.resolved.wrapT = HdWrapLegacyNoOpinionFallbackRepeat

\* The state after one of the three constructors ran.
Constructed == lastOp.op \in {"UvConstruct", "FieldConstruct", "PtexConstruct"}

DrainFn == "GLF_POST_PENDING_GL_ERRORS"

\* C7: a sampler object constructed with createBindlessHandle = false holds
\* only zero bindless handles, and its constructor issued no get-handle call,
\* no make-resident call and no coding error, whatever the texture and the
\* sampler name were.
C7_NoHandleWithoutCreateFlag ==
    (Constructed /\ ~lastOp.createBindlessHandle) =>
        /\ BindlessHandlesHeld(lastOp.object) = {}
        /\ CallsOf(GetHandleFns \cup {MakeResidentFn, "TF_CODING_ERROR"}) = {}

\* C7 witness: a Uv object made without the flag from a named GL texture and
\* with a non-zero sampler: every other input would have allowed a handle.
C7_Witness ==
    /\ lastOp.op = "UvConstruct"
    /\ ~lastOp.createBindlessHandle
    /\ lastOp.texture.present /\ lastOp.texture.isGL
    /\ lastOp.texture.textureId # 0
    /\ lastOp.object.glSamplerName # 0
    /\ lastOp.object.glTextureSamplerHandle = 0

\* The log reduced to <<function, texture name>>.
TextureLog == [i \in 1..Len(calls) |-> <<calls[i].fn, calls[i].texture>>]

\* What _GenGlTextureHandle has to log, with the flag set, for a texture name.
ExpectedDerivation(textureName) ==
    IF textureName = 0 THEN << >>
    ELSE << <<"glGetTextureHandleARB", textureName>>, <<MakeResidentFn, 0>>,
            <<DrainFn, 0>> >>

\* C8: with createBindlessHandle = true and a native texture name of zero a
\* derivation returns zero and issues no get-handle call, no make-resident
\* call and no error drain: a Uv or Field constructor logs nothing after the
\* sampler factory's calls, and the Ptex constructor logs, for the texel array
\* and then for the layout array, a derivation exactly when that array's name
\* is non-zero, whatever the other array's name.
C8_ZeroTextureNameDerivesNothing ==
    /\ ( /\ lastOp.op \in {"UvConstruct", "FieldConstruct"}
         /\ lastOp.createBindlessHandle
         /\ lastOp.texture.present /\ lastOp.texture.isGL
         /\ lastOp.texture.textureId = 0 ) =>
            /\ lastOp.object.glTextureSamplerHandle = 0
            /\ CallsOf(GetHandleFns \cup {MakeResidentFn}) = {}
            /\ CallsOf({DrainFn}) = {Len(calls)}
            /\ \A i \in 1..(Len(calls) - 1) : calls[i].fn \in SamplerFns
    /\ (lastOp.op = "PtexConstruct" /\ lastOp.createBindlessHandle) =>
            /\ TextureLog = ExpectedDerivation(lastOp.texture.texelName)
                              \o ExpectedDerivation(lastOp.texture.layoutName)
            /\ lastOp.object.texelsGLTextureHandle = 0
                  <=> lastOp.texture.texelName = 0
            /\ lastOp.object.layoutGLTextureHandle = 0
                  <=> lastOp.texture.layoutName = 0

\* C8 witness: a Ptex object made with the flag from a texture whose texel
\* array has no name and whose layout array has one: no texel handle, and a
\* layout handle.
C8_Witness ==
    /\ lastOp.op = "PtexConstruct"
    /\ lastOp.createBindlessHandle
    /\ lastOp.texture.texelName = 0
    /\ lastOp.texture.layoutName # 0
    /\ lastOp.object.texelsGLTextureHandle = 0
    /\ lastOp.object.layoutGLTextureHandle # 0
    /\ Len(calls) = 3

\* C9: the Ptex constructor makes no sampler and issues no sampler call; its
\* GL calls are at most two glGetTextureHandleARB, each followed at once by
\* glMakeTextureHandleResidentARB on the handle it returned (and then by the
\* pending-error check); and its handles are those of the texture's two
\* arrays, whatever the sampler parameters.
C9_PtexConstructMakesNoSampler ==
    lastOp.op = "PtexConstruct" =>
        /\ lastOp.object.glSamplerName = 0
        /\ CallsOf(SamplerFns) = {}
        /\ \A i \in 1..Len(calls) :
              calls[i].fn \in {"glGetTextureHandleARB", MakeResidentFn, DrainFn}
        /\ Cardinality(CallsOf(GetHandleFns)) <= 2
        /\ Cardinality(CallsOf({MakeResidentFn})) = Cardinality(CallsOf(GetHandleFns))
        /\ \A i \in CallsOf(GetHandleFns) :
              /\ i + 2 <= Len(calls)
              /\ calls[i + 1].fn = MakeResidentFn
              /\ calls[i + 1].handle = calls[i].handle
              /\ calls[i + 2].fn = DrainFn
        /\ lastOp.object.texelsGLTextureHandle =
              (IF lastOp.createBindlessHandle
               THEN DeviceHandle(lastOp.texture.texelName, 0) ELSE 0)
        /\ lastOp.object.layoutGLTextureHandle =
              (IF lastOp.createBindlessHandle
               THEN DeviceHandle(lastOp.texture.layoutName, 0) ELSE 0)

\* C9 witness: a Ptex object made with the flag and with parameters that ask
\* for filtering and wrapping, holding two handles.
C9_Witness ==
    /\ lastOp.op = "PtexConstruct"
    /\ lastOp.createBindlessHandle
    /\ lastOp.samplerParameters.wrapT = HdWrapMirror
    /\ lastOp.samplerParameters.magFilter = "Linear"
    /\ lastOp.object.texelsGLTextureHandle # 0
    /\ lastOp.object.layoutGLTextureHandle # 0
    /\ Cardinality(CallsOf(GetHandleFns)) = 2

\* C10: the Uv constructor first makes the sampler, configured with wrapS and
\* wrapT as the algorithm resolves the caller's values against the texture's
\* opinions, and only then asks for the handle, of the texture's name and of
\* that sampler's name; the object holds that sampler and that handle. With
\* texture opinions (Repeat, NoOpinion), caller wraps (NoOpinion, Clamp) and no
\* flag: wrapS = Repeat, wrapT = Clamp and a zero handle.
C10_UvConstructOrder ==
    lastOp.op = "UvConstruct" =>
        LET name == lastOp.object.glSamplerName
            texture == lastOp.texture
            parameters == lastOp.samplerParameters
        IN  /\ Len(calls) >= 3
            /\ calls[1] = SamplerCall("glGenSamplers", name, "", "")
            /\ calls[2] = SamplerCall("glSamplerParameteri", name, "GL_TEXTURE_WRAP_S",
                              ReferenceResolve(texture.wrapS, parameters.wrapS))
            /\ calls[3] = SamplerCall("glSamplerParameteri", name, "GL_TEXTURE_WRAP_T",
                              ReferenceResolve(texture.wrapT, parameters.wrapT))
            /\ Cardinality(CallsOf({"glGenSamplers"})) = 1
            /\ \A i \in CallsOf(GetHandleFns), j \in CallsOf(SamplerFns) : j < i
            /\ \A i \in CallsOf(GetHandleFns) :
                  /\ calls[i].fn = "glGetTextureSamplerHandleARB"
                  /\ calls[i].name = name
                  /\ calls[i].texture = texture.textureId
                  /\ calls[i].handle = lastOp.object.glTextureSamplerHandle
            /\ CallsOf(GetHandleFns) = {} => lastOp.object.glTextureSamplerHandle = 0
            /\ ( /\ texture.wrapS = HdWrapRepeat /\ texture.wrapT = HdWrapNoOpinion
                 /\ parameters.wrapS = HdWrapNoOpinion /\ parameters.wrapT = HdWrapClamp
                 /\ ~lastOp.createBindlessHandle ) =>
                    /\ calls[2].val = HdWrapRepeat
                    /\ calls[3].val = HdWrapClamp
                    /\ lastOp.object.glTextureSamplerHandle = 0

\* C10 witness: a Uv object made with the flag from a named GL texture with
\* opinions (Repeat, NoOpinion) and caller wraps (NoOpinion, Clamp): the
\* sampler got wrapS = Repeat, and the handle was asked for after that.
C10_Witness ==
    /\ lastOp.op = "UvConstruct"
    /\ lastOp.createBindlessHandle
    /\ lastOp.texture.wrapS = HdWrapRepeat /\ lastOp.texture.wrapT = HdWrapNoOpinion
    /\ lastOp.samplerParameters.wrapS = HdWrapNoOpinion
    /\ lastOp.samplerParameters.wrapT = HdWrapClamp
    /\ lastOp.object.glSamplerName # 0
    /\ lastOp.object.glTextureSamplerHandle # 0
    /\ CallsOf(GetHandleFns) # {}
    /\ Len(calls) >= 3 /\ calls[2].val = HdWrapRepeat /\ calls[3].val = HdWrapClamp

\* C11: resolving the parameters of a Uv sampler changes wrapS and wrapT only.
\* In every resolving step the result has the caller's wrapR, minFilter and
\* magFilter (a wrapR of NoOpinion or LegacyNoOpinionFallbackRepeat included),
\* its wrapS is the single-parameter resolution of the texture's wrapS opinion
\* and the caller's wrapS, its wrapT that of the texture's wrapT opinion and
\* the caller's wrapT, and the caller's parameters and the texture's opinions
\* are after the step what they were before it.
C11_UvResolutionChangesWrapSTOnly ==
    [][lastOp.op = "ResolveInput" =>
        /\ lastOp'.op = "_ResolveUvSamplerParameters"
        /\ lastOp'.samplerParameters = lastOp.samplerParameters
        /\ lastOp'.texture = lastOp.texture
        /\ lastOp'.resolved.wrapR = lastOp.samplerParameters.wrapR
        /\ lastOp'.resolved.minFilter = lastOp.samplerParameters.minFilter
        /\ lastOp'.resolved.magFilter = lastOp.samplerParameters.magFilter
        /\ lastOp'.resolved.wrapS =
              _ResolveSamplerParameter(lastOp.texture.wrapS,
                                       lastOp.samplerParameters.wrapS)
        /\ lastOp'.resolved.wrapT =
              _ResolveSamplerParameter(lastOp.texture.wrapT,
                                       lastOp.samplerParameters.wrapT)]_vars

\* A resolution that changes wrapS and wrapT while the caller's wrapR is
\* LegacyNoOpinionFallbackRepeat, and the texture's wrapS opinion would have
\* resolved it.
C11_Witness ==
    /\ Resolved
    /\ lastOp.samplerParameters.wrapR = HdWrapLegacyNoOpinionFallbackRepeat
    /\ lastOp.resolved.wrapR = HdWrapLegacyNoOpinionFallbackRepeat
    /\ lastOp.texture.wrapS = HdWrapMirror
    /\ lastOp.texture.wrapT = HdWrapClamp
    /\ lastOp.samplerParameters.wrapS = HdWrapNoOpinion
    /\ lastOp.samplerParameters.wrapT = HdWrapLegacyNoOpinionFallbackRepeat
    /\ lastOp.resolved.wrapS = HdWrapMirror
    /\ lastOp.resolved.wrapT = HdWrapClamp

Attributes == {"wrapS", "wrapT", "wrapR", "minFilter", "magFilter"}

\* The attributes in which two parameter values differ.
Differing(a, b) == {f \in Attributes : a[f] # b[f]}

\* C12: equality of sampler parameters is attribute-wise. a == b is true
\* exactly when a and b differ in none of wrapS, wrapT, wrapR, minFilter and
\* magFilter; it gives the same answer with its operands exchanged, is true of
\* a value and itself, and carries over a third value equal to the second;
\* a != b is the negation of a == b.
C12_EqualityIsAttributeWise ==
    /\ lastOp.op = "operator==" =>
          /\ lastOp.result = (Differing(lastOp.this, lastOp.other) = {})
          /\ lastOp.result = OperatorEqual(lastOp.other, lastOp.this)
          /\ OperatorEqual(lastOp.this, lastOp.this)
          /\ \A third \in ComparedParameters :
                (lastOp.result /\ OperatorEqual(lastOp.other, third))
                    => OperatorEqual(lastOp.this, third)
    /\ lastOp.op = "operator!=" =>
          /\ lastOp.result = ~OperatorEqual(lastOp.this, lastOp.other)
          /\ lastOp.result = (Differing(lastOp.this, lastOp.other) # {})

\* Two values that differ in magFilter only, compared with ==: unequal.
C12_Witness ==
    /\ lastOp.op = "operator=="
    /\ Differing(lastOp.this, lastOp.other) = {"magFilter"}
    /\ ~lastOp.result

UvFieldConstructed == lastOp.op \in {"UvConstruct", "FieldConstruct"}
UvFieldDestroyed == lastOp.op \in {"UvDestroy", "FieldDestroy"}

\* The texture of the last construction is there and of another backing than
\* the supported one, and a handle was asked for.
Mismatch ==
    /\ lastOp.createBindlessHandle
    /\ lastOp.texture.present
    /\ ~lastOp.texture.isGL

\* C13: a texture of an unsupported backing degrades the construction and does
\* not stop it. The constructor of a Uv or Field object reports a coding error
\* exactly when createBindlessHandle is true, the texture is present and its
\* backing is not the supported one, and then reports it once; the object's
\* handle is then zero, no get-handle and no make-resident call is issued, and
\* the object is alive with the sampler the factory allocated. No other
\* operation reports a coding error, and the destructor of an object with a
\* non-zero sampler and a zero handle deletes that sampler with one call.
C13_MismatchReportsAndDegrades ==
    /\ (CallsOf({"TF_CODING_ERROR"}) # {}) <=> (UvFieldConstructed /\ Mismatch)
    /\ (UvFieldConstructed /\ Mismatch) =>
          /\ Cardinality(CallsOf({"TF_CODING_ERROR"})) = 1
          /\ lastOp.object.glTextureSamplerHandle = 0
          /\ CallsOf(GetHandleFns \cup {MakeResidentFn}) = {}
          /\ lastOp.object \in Live
          /\ Cardinality(CallsOf({"glGenSamplers"})) = 1
          /\ calls[1].fn = "glGenSamplers"
          /\ calls[1].name = lastOp.object.glSamplerName
          /\ SamplersHeld(lastOp.object) \subseteq glSamplers
    /\ (/\ UvFieldDestroyed
        /\ lastOp.object.glTextureSamplerHandle = 0
        /\ lastOp.object.glSamplerName # 0) =>
          /\ calls = << SamplerCall("glDeleteSamplers",
                                    lastOp.object.glSamplerName, "", "") >>
          /\ lastOp.object.glSamplerName \notin glSamplers

\* A Field object made, with the flag set and a sampler allocated, from a
\* texture of another backing.
C13_Witness ==
    /\ lastOp.op = "FieldConstruct"
    /\ Mismatch
    /\ lastOp.object.glSamplerName # 0
    /\ CallsOf({"TF_CODING_ERROR"}) # {}
    /\ lastOp.object \in Live

\* C14: a failed sampler allocation propagates as "no sampler". A Uv or Field
\* object whose factory call returned the sampler name zero has a zero handle
\* and its constructor issued no get-handle and no make-resident call, also
\* with createBindlessHandle true and a named texture of the supported
\* backing; the object is alive after the construction, and its destructor
\* issues no call at all, so no delete-sampler call.
C14_NoSamplerNoHandleNoDelete ==
    /\ (UvFieldConstructed /\ lastOp.object.glSamplerName = 0) =>
          /\ calls[1] = SamplerCall("glGenSamplers", 0, "", "")
          /\ lastOp.object.glTextureSamplerHandle = 0
          /\ CallsOf(GetHandleFns \cup {MakeResidentFn}) = {}
          /\ lastOp.object \in Live
    /\ (UvFieldDestroyed /\ lastOp.object.glSamplerName = 0) =>
          /\ lastOp.object.glTextureSamplerHandle = 0
          /\ calls = << >>

\* A Uv object whose sampler allocation failed while everything else allowed
\* a handle.
C14_Witness ==
    /\ lastOp.op = "UvConstruct"
    /\ lastOp.object.glSamplerName = 0
    /\ lastOp.createBindlessHandle
    /\ lastOp.texture.present /\ lastOp.texture.isGL
    /\ lastOp.texture.textureId # 0
    /\ lastOp.object.glTextureSamplerHandle = 0

\* The log reduced to <<function, parameter name, value>>.
ParameterLog == [i \in 1..Len(calls) |-> <<calls[i].fn, calls[i].pname, calls[i].val>>]

\* The last construction's inputs allow a sampler+texture handle for a sampler
\* of the given name.
Derivable(samplerName) ==
    /\ lastOp.createBindlessHandle
    /\ lastOp.texture.present /\ lastOp.texture.isGL
    /\ lastOp.texture.textureId # 0
    /\ samplerName # 0

\* C15: the Field constructor configures its sampler with the caller's five
\* parameters as they are: the five glSamplerParameteri calls carry the
\* caller's wrapS, wrapT, wrapR, minFilter and magFilter, a NoOpinion or
\* LegacyNoOpinionFallbackRepeat among them included. The handle is then
\* derived as the Uv constructor derives it: from the texture's name and
\* that sampler's name with one get-handle call when flag, texture and
\* sampler allow it, and zero with no get-handle call otherwise.
C15_FieldConstructUsesCallerParameters ==
    lastOp.op = "FieldConstruct" =>
        LET name == lastOp.object.glSamplerName
            parameters == lastOp.samplerParameters
        IN  /\ Len(calls) >= 9
            /\ calls[1] = SamplerCall("glGenSamplers", name, "", "")
            /\ SubSeq(ParameterLog, 2, 6) =
                  << <<"glSamplerParameteri", "GL_TEXTURE_WRAP_S", parameters.wrapS>>,
                     <<"glSamplerParameteri", "GL_TEXTURE_WRAP_T", parameters.wrapT>>,
                     <<"glSamplerParameteri", "GL_TEXTURE_WRAP_R", parameters.wrapR>>,
                     <<"glSamplerParameteri", "GL_TEXTURE_MIN_FILTER", parameters.minFilter>>,
                     <<"glSamplerParameteri", "GL_TEXTURE_MAG_FILTER", parameters.magFilter>> >>
            /\ \A i \in 2..6 : calls[i].name = name
            /\ Cardinality(CallsOf({"glSamplerParameteri"})) = 5
            /\ IF Derivable(name)
               THEN /\ Len(calls) = 12
                    /\ calls[10] = Call("glGetTextureSamplerHandleARB", name, "", "",
                                        lastOp.texture.textureId,
                                        lastOp.object.glTextureSamplerHandle, FALSE)
                    /\ lastOp.object.glTextureSamplerHandle =
                          DeviceHandle(lastOp.texture.textureId, name)
                    /\ <<calls[11].fn, calls[11].handle>> =
                          <<MakeResidentFn, lastOp.object.glTextureSamplerHandle>>
                    /\ calls[12].fn = DrainFn
               ELSE /\ lastOp.object.glTextureSamplerHandle = 0
                    /\ CallsOf(GetHandleFns \cup {MakeResidentFn}) = {}

\* A Field object made with the flag from a named GL texture, the caller's
\* wrapS LegacyNoOpinionFallbackRepeat and wrapT Mirror: the sampler got both
\* as they are, and the object got a handle.
C15_Witness ==
    /\ lastOp.op = "FieldConstruct"
    /\ lastOp.samplerParameters.wrapS = HdWrapLegacyNoOpinionFallbackRepeat
    /\ Len(calls) = 12
    /\ calls[2].val = HdWrapLegacyNoOpinionFallbackRepeat
    /\ calls[3].val = HdWrapMirror
    /\ lastOp.object.glTextureSamplerHandle # 0

ConfigurationFns == SamplerFns \ {"glGenSamplers"}

\* C16: the sampler factory allocates exactly one sampler at each call,
\* unconditionally. The constructor of a Uv or Field object issues exactly
\* one glGenSamplers, as its first call, whatever createBindlessHandle and the
\* texture's presence, backing and name are; the object holds the name that
\* call produced; the seven configuration calls (five parameters, the border
\* color (0,0,0,0), the maximum anisotropy 16.0) follow it on that name, and
\* the check of pending errors follows them all.
C16_FactoryAllocatesOnceThenConfigures ==
    UvFieldConstructed =>
        /\ Len(calls) >= 9
        /\ CallsOf({"glGenSamplers"}) = {1}
        /\ calls[1].name = lastOp.object.glSamplerName
        /\ SamplersHeld(lastOp.object) \subseteq glSamplers
        /\ CallsOf(ConfigurationFns) = 2..8
        /\ \A i \in 2..8 : calls[i].name = calls[1].name
        /\ <<calls[7].fn, calls[7].pname, calls[7].val>> =
              <<"glSamplerParameterfv", "GL_TEXTURE_BORDER_COLOR", "(0,0,0,0)">>
        /\ <<calls[8].fn, calls[8].pname, calls[8].val>> =
              <<"glSamplerParameterf", "GL_TEXTURE_MAX_ANISOTROPY_EXT", "16.0">>
        /\ calls[9].fn = DrainFn
        /\ \A i \in CallsOf({DrainFn}) : i >= 9

\* A Uv object made without the flag and without a texture: its sampler was
\* allocated and configured all the same.
C16_Witness ==
    /\ lastOp.op = "UvConstruct"
    /\ ~lastOp.createBindlessHandle
    /\ ~lastOp.texture.present
    /\ lastOp.object.glSamplerName # 0
    /\ lastOp.object.glSamplerName \in glSamplers
    /\ Len(calls) = 9
    /\ calls[1].fn = "glGenSamplers"

\* The GL names of the textures that are there.
TextureNamesPresent ==
    UNION {{textures[k].textureId, textures[k].texelName, textures[k].layoutName} :
              k \in {kind \in TextureKinds : textures[kind].present}} \ {0}

\* C17: no sampler object issues a make-non-resident call on a handle whose
\* texture was destroyed or reloaded after the handle was derived. A handle
\* is derived from a texture that is there, so a texture that is not there
\* when the call is issued was destroyed since: no destructor issues
\* glMakeTextureHandleNonResidentARB on a handle of a texture that is not
\* there.
C17_NoReleaseAfterTextureDestroyed ==
    \A i \in CallsOf({MakeNonResidentFn}) :
        HandleTexture(calls[i].handle) \in TextureNamesPresent

\* The samplers held by the live objects.
SamplersOfLive == UNION {SamplersHeld(o) : o \in Live}

\* The device's samplers are those the live objects hold, each held by one
\* object; with no object alive there is no sampler.
SamplersBalance ==
    /\ glSamplers = SamplersOfLive
    /\ \A o \in Live :
          SamplersHeld(o) # {} =>
              /\ CopiesIn(o, objects) = 1
              /\ \A other \in Live \ {o} :
                    SamplersHeld(other) \cap SamplersHeld(o) = {}
    /\ objects = EmptyBag => glSamplers = {}

\* A construction adds one object, holding the sampler allocated if one was
\* (a name that was not in use) or the handles made resident; a destruction
\* removes one live object and deletes its sampler, then in use, with one
\* call, and no other sampler, or releases each handle it holds with one call.
LifecycleStep ==
    /\ lastOp'.op \in {"UvConstruct", "FieldConstruct"} =>
          /\ objects' = objects (+) SetToBag({lastOp'.object})
          /\ SamplersHeld(lastOp'.object) \cap glSamplers = {}
          /\ glSamplers' = glSamplers \cup SamplersHeld(lastOp'.object)
    /\ lastOp'.op \in {"UvDestroy", "FieldDestroy"} =>
          /\ lastOp'.object \in Live
          /\ objects' = objects (-) SetToBag({lastOp'.object})
          /\ SamplersHeld(lastOp'.object) \subseteq glSamplers
          /\ glSamplers' = glSamplers \ SamplersHeld(lastOp'.object)
          /\ calls' = [i \in 1..Cardinality(SamplersHeld(lastOp'.object)) |->
                          SamplerCall("glDeleteSamplers",
                                      lastOp'.object.glSamplerName, "", "")]
    /\ lastOp'.op = "PtexConstruct" =>
          /\ objects' = objects (+) SetToBag({lastOp'.object})
          /\ glSamplers' = glSamplers
          /\ {calls'[i].handle : i \in {j \in 1..Len(calls') :
                                          calls'[j].fn = MakeResidentFn}}
                = BindlessHandlesHeld(lastOp'.object)
    /\ lastOp'.op = "PtexDestroy" =>
          /\ lastOp'.object \in Live
          /\ objects' = objects (-) SetToBag({lastOp'.object})
          /\ glSamplers' = glSamplers
          /\ [i \in 1..Len(calls') |-> <<calls'[i].fn, calls'[i].handle>>] =
                ExpectedRelease(lastOp'.object.texelsGLTextureHandle)
                    \o ExpectedRelease(lastOp'.object.layoutGLTextureHandle)

\* C18: the device's resources balance over the life of the objects. At all
\* times the samplers of the device are exactly the non-zero samplers of the
\* live Uv and Field objects, each held by one object, so that none is left
\* when every object has been destroyed; every Uv or Field destructor deletes
\* the sampler of its own object, in use until then, with exactly one call;
\* and every Ptex destructor issues exactly one make-non-resident call for
\* each handle its own constructor made resident.
C18_ResourcesBalance == [](SamplersBalance) /\ [][LifecycleStep]_vars

\* The last object, a Uv object with a sampler, has been destroyed: its
\* sampler was deleted and the device has none left.
C18_Witness ==
    /\ lastOp.op = "UvDestroy"
    /\ lastOp.object.glSamplerName # 0
    /\ objects = EmptyBag
    /\ glSamplers = {}
    /\ Len(calls) = 1

\* The positions of the log that hold a call of fn on the handle h.
CallsOn(fn, h) == {i \in 1..Len(calls) : calls[i].fn = fn /\ calls[i].handle = h}

\* C19: a Uv or Field object with a non-zero handle was constructed with
\* createBindlessHandle true from a texture that was there, of the supported
\* backing and with a non-zero name, and has a non-zero sampler; every live
\* Uv or Field object with a non-zero handle has a non-zero sampler, the one
\* the handle was made with. And for every non-zero handle an object of any
\* variant stores, its constructor issued exactly one get-handle call that
\* returned it and exactly one make-resident call on it, the call next after
\* that get-handle call, and no make-resident call on anything else.
C19_HandleImpliesDerivation ==
    /\ \A o \in Live :
          (o.kind \in {"Uv", "Field"} /\ o.glTextureSamplerHandle # 0) =>
              /\ o.glSamplerName # 0
              /\ HandleSampler(o.glTextureSamplerHandle) = o.glSamplerName
    /\ (UvFieldConstructed /\ lastOp.object.glTextureSamplerHandle # 0) =>
          /\ lastOp.createBindlessHandle
          /\ lastOp.texture.present
          /\ lastOp.texture.isGL
          /\ lastOp.texture.textureId # 0
          /\ lastOp.object.glSamplerName # 0
    /\ Constructed =>
          /\ lastOp.object \in Live
          /\ \A h \in BindlessHandlesHeld(lastOp.object) :
                /\ Cardinality(CallsOn(MakeResidentFn, h)) = 1
                /\ \E i \in CallsOf(GetHandleFns) :
                      /\ \A j \in CallsOf(GetHandleFns) :
                            calls[j].handle = h => j = i
                      /\ calls[i].handle = h
                      /\ CallsOn(MakeResidentFn, h) = {i + 1}
          /\ \A i \in CallsOf({MakeResidentFn}) :
                calls[i].handle \in BindlessHandlesHeld(lastOp.object)

\* A Uv object made with a handle: the handle came from one get-handle call
\* and was made resident by the next call.
C19_Witness ==
    /\ lastOp.op = "UvConstruct"
    /\ lastOp.object.glTextureSamplerHandle # 0
    /\ lastOp.object \in Live
    /\ Len(calls) = 12
    /\ calls[10].fn = "glGetTextureSamplerHandleARB"
    /\ calls[10].handle = lastOp.object.glTextureSamplerHandle
    /\ calls[11].fn = MakeResidentFn
    /\ calls[11].handle = lastOp.object.glTextureSamplerHandle

====
